---- MODULE Spec2Model ----
(***************************************************************************)
(* hulomind retrieval core: the in-memory vector store                     *)
(* (vectorstore/memory_store.py), the two-pass knowledge service           *)
(* (services/knowledge_service.py) and the Markdown chunker                *)
(* (processors/markdown_processor.py).                                     *)
(*                                                                         *)
(* Similarities are cosine values in hundredths; the sample vectors        *)
(* have integer norms, so the scaled values are exact.  A division 0/0     *)
(* (zero-norm vector) is numpy's nan, kept as a separate flag.             *)
(***************************************************************************)
EXTENDS Integers, Sequences, FiniteSets, TLC

\* ------------------------------------------------------------------ bounds
MaxChunks == 3
MaxBatch == 2

\* ------------------------------------------------------------ sample data
\* Embedding texts and the vector the external embedding model returns for
\* each (deterministic per text).  "" is the empty query.
Texts == {"tx", "txy", "tzero"}

Queries == {"tx", "tzero", ""}

Encode(text) ==
  CASE text = "tx"    -> <<1, 0>>
    [] text = "txy"   -> <<3, 4>>
    [] text = "tzero" -> <<0, 0>>
    [] OTHER          -> <<4, 3>>

\* DocumentChunk values offered to add_chunks: ids repeat (re-ingestion of a
\* changed document), contents repeat (equal similarity), one embeds to the
\* zero vector.
ChunkPool ==
  { [id |-> "A", content |-> "tx",    language |-> "en", category |-> "guide"],
    [id |-> "A", content |-> "txy",   language |-> "zh", category |-> "guide"],
    [id |-> "B", content |-> "tx",    language |-> "en", category |-> "ref"],
    [id |-> "C", content |-> "tzero", language |-> "zh", category |-> "ref"] }

Batches == UNION { [1..n -> ChunkPool] : n \in 0..MaxBatch }

\* thresholds in hundredths: 0.3 (broad default), 0.7 (search default) and
\* 0.6, a value some candidate's similarity equals
Thresholds == {30, 60, 70}

\* top_k: none, one, two (fewer than, as many as, or more than the candidates)
TopKs == {0, 1, 2}

Languages == {"", "en", "zh"}
Categories == {"", "guide", "ref"}

\* chunks, embeddings, chunk_to_embedding: the fields of MemoryVectorStore
\* ret: the last store/service call and its return value
\* threads: the position and locals of each concurrent add_chunks call
\* doc, out: a document given to the chunker and what the chunker returned
\* loader: the locals of one load_documents call and the state of its futures
\* view: the list a caller got from the chunks accessor
\* last: the previous multi_round_search call, its index and its result
VARIABLES chunks, embeddings, chunk_to_embedding, ret, threads, doc, out,
          loader, view, last

vars == <<chunks, embeddings, chunk_to_embedding, ret, threads, doc, out, loader, view, last>>

storeVars == <<chunks, embeddings, chunk_to_embedding>>

store == [chunks |-> chunks, embeddings |-> embeddings,
          chunk_to_embedding |-> chunk_to_embedding]

Threads == {1, 2}

IdleThread == [pc |-> "idle"]

NoDocument == [content |-> <<>>, chunk_size |-> 0, chunk_overlap |-> 0]

NoLoad == [pc |-> "none"]

NoView == [held |-> FALSE]

NoCall == [op |-> "none"]

\* ---------------------------------------------------------------- helpers
EmptyMap == [x \in {} |-> 0]

Put(m, k, v) == [x \in (DOMAIN m) \cup {k} |-> IF x = k THEN v ELSE m[x]]

Reverse(s) == [i \in 1..Len(s) |-> s[Len(s) + 1 - i]]

Take(s, n) == SubSeq(s, 1, IF n < Len(s) THEN n ELSE Len(s))

Range(s) == {s[i] : i \in 1..Len(s)}

\* ------------------------------------------------------- MemoryVectorStore
\* faulty variant: an id already in the map keeps its first slot (dict.setdefault)
RECURSIVE UpdateMappingKeepFirst(_, _, _, _)
UpdateMappingKeepFirst(m, batch, start_idx, i) ==
  IF i > Len(batch) THEN m
  ELSE UpdateMappingKeepFirst(
         IF batch[i].id \in DOMAIN m THEN m
         ELSE Put(m, batch[i].id, start_idx + (i - 1)),
         batch, start_idx, i + 1)

\* the mapping loop of add_chunks: chunk_to_embedding[chunk.id] = start_idx + i
\* (slots are 0-based as in the code)
RECURSIVE UpdateMapping(_, _, _, _)
UpdateMapping(m, batch, start_idx, i) ==
  IF i > Len(batch) THEN m
  ELSE UpdateMapping(Put(m, batch[i].id, start_idx + (i - 1)), batch, start_idx, i + 1)

EncodeAll(batch) == [i \in 1..Len(batch) |-> Encode(batch[i].content)]

\* faulty variant: a chunk whose id is already mapped replaces the chunk and
\* the vector at the mapped slot instead of taking a new slot (an upsert)
AddChunksUpsert(st, batch, encode_ok) ==
  LET RECURSIVE UpsertFrom(_, _)
      UpsertFrom(s, i) ==
        IF i > Len(batch) THEN s
        ELSE UpsertFrom(
               IF batch[i].id \in DOMAIN s.chunk_to_embedding
                 THEN [s EXCEPT
                         !.chunks[s.chunk_to_embedding[batch[i].id] + 1] = batch[i],
                         !.embeddings[s.chunk_to_embedding[batch[i].id] + 1] =
                            Encode(batch[i].content)]
                 ELSE [chunks |-> Append(s.chunks, batch[i]),
                       embeddings |-> Append(s.embeddings, Encode(batch[i].content)),
                       chunk_to_embedding |->
                         Put(s.chunk_to_embedding, batch[i].id, Len(s.chunks))],
               i + 1)
  IN IF Len(batch) = 0 \/ ~encode_ok THEN st ELSE UpsertFrom(st, 1)

\* faulty variant: the chunk list is extended before the embedding model is called
AddChunksExtendFirst(st, batch, encode_ok) ==
  IF Len(batch) = 0 THEN st
  ELSE IF ~encode_ok THEN [st EXCEPT !.chunks = st.chunks \o batch]
  ELSE [chunks |-> st.chunks \o batch,
        embeddings |-> st.embeddings \o EncodeAll(batch),
        chunk_to_embedding |->
          UpdateMapping(st.chunk_to_embedding, batch, Len(st.chunks), 1)]

\* add_chunks as one call: the store after it.  encode_ok = FALSE is the
\* embedding model raising at line 48, before any list is touched.
AddChunksStore(st, batch, encode_ok) ==
  IF Len(batch) = 0 THEN st
  ELSE IF ~encode_ok THEN st
  ELSE [chunks |-> st.chunks \o batch,
        embeddings |-> st.embeddings \o EncodeAll(batch),
        chunk_to_embedding |->
          UpdateMapping(st.chunk_to_embedding, batch, Len(st.chunks), 1)]

\* faulty variant: the vector list is not cleared
ClearStoreKeepVectors(st) ==
  [chunks |-> <<>>, embeddings |-> st.embeddings, chunk_to_embedding |-> EmptyMap]

ClearStore(st) ==
  [chunks |-> <<>>, embeddings |-> <<>>, chunk_to_embedding |-> EmptyMap]

\* get_stats: the returned dict
GetStats(st) ==
  [total_chunks |-> Len(st.chunks),
   total_embeddings |-> Len(st.embeddings),
   embedding_dimension |-> IF Len(st.embeddings) > 0 THEN Len(st.embeddings[1]) ELSE 0,
   model_name |-> "sentence-transformers/all-MiniLM-L6-v2",
   type |-> "memory"]

\* _cosine_similarity: dot / (norm1 * norm2), in hundredths.  With a
\* zero-norm vector numpy divides 0.0 by 0.0 and returns nan (a warning, no
\* exception).
Dot(a, b) == a[1] * b[1] + a[2] * b[2]

Norm(a) == CHOOSE n \in 0..5 : n * n = Dot(a, a)

CosineSimilarity(vec1, vec2) ==
  IF Norm(vec1) * Norm(vec2) = 0
    THEN [nan |-> TRUE, v |-> 0]
    ELSE [nan |-> FALSE, v |-> (Dot(vec1, vec2) * 100) \div (Norm(vec1) * Norm(vec2))]

\* numpy's sort order: a < b, with nan after every number
SimLess(a, b) == IF a.nan THEN FALSE ELSE (b.nan \/ a.v < b.v)

\* faulty variant: the comparison turned around (a distance test)
SimGeReversed(a, threshold) == ~a.nan /\ a.v <= threshold

\* similarity >= threshold (false for nan)
SimGe(a, threshold) == ~a.nan /\ a.v >= threshold

\* np.argsort(similarities): positions 1..Len(sims) in ascending order of
\* similarity.  Arrays this small are sorted by insertion, which keeps equal
\* values in their original order.
RECURSIVE InsertAsc(_, _, _)
InsertAsc(sorted, sims, i) ==
  IF sorted = <<>> THEN <<i>>
  ELSE IF SimLess(sims[i], sims[sorted[Len(sorted)]])
    THEN Append(InsertAsc(SubSeq(sorted, 1, Len(sorted) - 1), sims, i),
                sorted[Len(sorted)])
    ELSE Append(sorted, i)

RECURSIVE ArgsortUpTo(_, _)
ArgsortUpTo(sims, n) ==
  IF n = 0 THEN <<>> ELSE InsertAsc(ArgsortUpTo(sims, n - 1), sims, n)

Argsort(sims) == ArgsortUpTo(sims, Len(sims))

\* lines 73-82: the language/category filter ("" stands for None; both are
\* falsy in `if language`)
MatchesFilter(chunk, language, category) ==
  /\ (language # "" => chunk.language = language)
  /\ (category # "" => chunk.category = category)

FilteredChunks(st, language, category) ==
  IF language # "" \/ category # ""
    THEN SelectSeq(st.chunks, LAMBDA c : MatchesFilter(c, language, category))
    ELSE st.chunks

\* lines 88-94: chunk_indices, the 1-based slots of the chunks that are
\* `in filtered_chunks` (equality of chunk values)
RECURSIVE ChunkIndicesFrom(_, _, _)
ChunkIndicesFrom(st, filtered, i) ==
  IF i > Len(st.chunks) THEN <<>>
  ELSE (IF \E j \in 1..Len(filtered) : filtered[j] = st.chunks[i]
          THEN <<i>> ELSE <<>>)
       \o ChunkIndicesFrom(st, filtered, i + 1)

ChunkIndices(st, language, category) ==
  ChunkIndicesFrom(st, FilteredChunks(st, language, category), 1)

Similarities(st, query, chunk_indices) ==
  [k \in 1..Len(chunk_indices) |->
     CosineSimilarity(Encode(query), st.embeddings[chunk_indices[k]])]

\* faulty variant: the top_k highest of all chunks are taken first and the
\* language/category filter is applied to them afterwards
SearchSlotsFilterLast(st, query, top_k, threshold, language, category) ==
  IF Len(st.chunks) = 0 THEN <<>>
  ELSE
    LET chunk_indices == ChunkIndices(st, "", "")
        similarities == Similarities(st, query, chunk_indices)
        top_indices == Take(Reverse(Argsort(similarities)), top_k)
        kept == SelectSeq(top_indices,
                  LAMBDA idx : /\ SimGe(similarities[idx], threshold)
                               /\ MatchesFilter(st.chunks[chunk_indices[idx]],
                                                language, category))
    IN [k \in 1..Len(kept) |-> chunk_indices[kept[k]]]

\* lines 96-107: np.argsort(similarities)[::-1][:top_k], then the threshold.
\* The value is the list of slots (1-based) of the returned chunks, in order.
SearchSlots(st, query, top_k, threshold, language, category) ==
  IF Len(st.chunks) = 0 THEN <<>>
  ELSE
    LET chunk_indices == ChunkIndices(st, language, category)
        similarities == Similarities(st, query, chunk_indices)
        top_indices == Take(Reverse(Argsort(similarities)), top_k)
        kept == SelectSeq(top_indices, LAMBDA idx : SimGe(similarities[idx], threshold))
    IN [k \in 1..Len(kept) |-> chunk_indices[kept[k]]]

\* what search returns: (chunk, similarity) pairs
SearchResults(st, query, slots) ==
  [k \in 1..Len(slots) |->
     [chunk |-> st.chunks[slots[k]],
      similarity |-> CosineSimilarity(Encode(query), st.embeddings[slots[k]])]]

StoreSearch(st, query, top_k, threshold, language, category) ==
  SearchResults(st, query, SearchSlots(st, query, top_k, threshold, language, category))

\* -------------------------------------------------------- KnowledgeService
\* lines 71-76 and 82-86: a search result tagged with its round
Tagged(results, round) ==
  [k \in 1..Len(results) |->
     [chunk |-> results[k].chunk, similarity |-> results[k].similarity,
      round |-> round]]

\* faulty variant: the broad results are appended without the existing_ids test
AppendBroadNoTest(all_results, existing_ids, broad_results, k) ==
  all_results \o Tagged(broad_results, 1)

\* lines 79-86: existing_ids is computed once, from the refined results
RECURSIVE AppendBroad(_, _, _, _)
AppendBroad(all_results, existing_ids, broad_results, k) ==
  IF k > Len(broad_results) THEN all_results
  ELSE AppendBroad(
         IF broad_results[k].chunk.id \notin existing_ids
           THEN Append(all_results,
                       [chunk |-> broad_results[k].chunk,
                        similarity |-> broad_results[k].similarity,
                        round |-> 1])
           ELSE all_results,
         existing_ids, broad_results, k + 1)

\* faulty variant: an ascending sort followed by a reversal, which turns equal
\* similarities around
RECURSIVE InsertDescUnstable(_, _)
InsertDescUnstable(sorted, r) ==
  IF sorted = <<>> THEN <<r>>
  ELSE IF sorted[Len(sorted)].similarity.v > r.similarity.v
    THEN Append(sorted, r)
    ELSE Append(InsertDescUnstable(SubSeq(sorted, 1, Len(sorted) - 1), r),
                sorted[Len(sorted)])

\* line 89: list.sort(key=similarity, reverse=True), a stable sort: an
\* element goes after every element whose similarity is >= its own
RECURSIVE InsertDesc(_, _)
InsertDesc(sorted, r) ==
  IF sorted = <<>> THEN <<r>>
  ELSE IF sorted[Len(sorted)].similarity.v >= r.similarity.v
    THEN Append(sorted, r)
    ELSE Append(InsertDesc(SubSeq(sorted, 1, Len(sorted) - 1), r),
                sorted[Len(sorted)])

RECURSIVE SortBySimilarity(_, _)
SortBySimilarity(all_results, n) ==
  IF n = 0 THEN <<>>
  ELSE InsertDesc(SortBySimilarity(all_results, n - 1), all_results[n])

MergeResults(refined_results, broad_results) ==
  LET all_results == Tagged(refined_results, 2)
      existing_ids == {all_results[k].chunk.id : k \in 1..Len(all_results)}
  IN AppendBroad(all_results, existing_ids, broad_results, 1)

\* faulty variant: no return after an empty broad pass; the refined pass
\* always runs and its results are merged
MultiRoundSearchNoShortCircuit(st, query, broad_top_k, refined_top_k, broad_threshold, refined_threshold) ==
  LET broad_results == StoreSearch(st, query, broad_top_k, broad_threshold, "", "")
      refined_results == StoreSearch(st, query, refined_top_k, refined_threshold, "", "")
      merged == MergeResults(refined_results, broad_results)
  IN [value |-> SortBySimilarity(merged, Len(merged)), calls |-> 2]

\* faulty variant: existing_ids is kept on the service between calls, so the
\* ids a previous call returned count as already present
MultiRoundSearchStickyIds(st, query, broad_top_k, refined_top_k, broad_threshold, refined_threshold) ==
  LET broad_results == StoreSearch(st, query, broad_top_k, broad_threshold, "", "")
      refined_results == StoreSearch(st, query, refined_top_k, refined_threshold, "", "")
      all_results == Tagged(refined_results, 2)
      kept_ids == IF last.op = "none" THEN {}
                  ELSE {last.value[k].chunk.id : k \in 1..Len(last.value)}
      existing_ids == {all_results[k].chunk.id : k \in 1..Len(all_results)}
                        \cup kept_ids
      merged == AppendBroad(all_results, existing_ids, broad_results, 1)
  IN IF Len(broad_results) = 0
       THEN [value |-> <<>>, calls |-> 1]
       ELSE [value |-> SortBySimilarity(merged, Len(merged)), calls |-> 2]

\* multi_round_search: the returned list and the number of search calls made
MultiRoundSearch(st, query, broad_top_k, refined_top_k, broad_threshold, refined_threshold) ==
  LET broad_results == StoreSearch(st, query, broad_top_k, broad_threshold, "", "")
      refined_results == StoreSearch(st, query, refined_top_k, refined_threshold, "", "")
      merged == MergeResults(refined_results, broad_results)
  IN IF Len(broad_results) = 0
       THEN [value |-> <<>>, calls |-> 1]
       ELSE [value |-> SortBySimilarity(merged, Len(merged)), calls |-> 2]

\* the defaults of multi_round_search (lines 31-34), thresholds in hundredths
DefaultBroadTopK == 20

DefaultRefinedTopK == 5

DefaultBroadThreshold == 30

DefaultRefinedThreshold == 50

\* _build_context: the text as its lines, one part per result.  The sample
\* chunks carry no metadata, so title and file_path are the .get defaults.
ContextPart(i, result) ==
  << [line |-> "header", i |-> i, title |-> "Untitled",
      similarity |-> result.similarity.v,
      round_info |-> IF result.round = 2 THEN "refined" ELSE "broad"],
     [line |-> "Source", text |-> "Unknown"],
     [line |-> "Language", text |-> result.chunk.language],
     [line |-> "Category", text |-> result.chunk.category],
     [line |-> "blank"],
     [line |-> "content", text |-> result.chunk.content],
     [line |-> "blank"],
     [line |-> "---"] >>

RECURSIVE BuildContextUpTo(_, _)
BuildContextUpTo(results, n) ==
  IF n = 0 THEN <<>>
  ELSE BuildContextUpTo(results, n - 1) \o ContextPart(n, results[n])

BuildContext(results) == BuildContextUpTo(results, Len(results))

\* faulty variant: the context is built from the whole list, not the slice
SearchWithContextWholeList(st, query, max_results) ==
  LET results == MultiRoundSearch(st, query, DefaultBroadTopK, DefaultRefinedTopK,
                                  DefaultBroadThreshold, DefaultRefinedThreshold).value
      top_results == Take(results, max_results)
  IN IF Len(results) = 0 THEN [results |-> <<>>, context |-> <<>>]
     ELSE [results |-> top_results, context |-> BuildContext(results)]

\* search_with_context: (top_results, context); results[:max_results] for
\* max_results >= 0
SearchWithContext(st, query, max_results) ==
  LET results == MultiRoundSearch(st, query, DefaultBroadTopK, DefaultRefinedTopK,
                                  DefaultBroadThreshold, DefaultRefinedThreshold).value
      top_results == Take(results, max_results)
  IN IF Len(results) = 0 THEN [results |-> <<>>, context |-> <<>>]
     ELSE [results |-> top_results, context |-> BuildContext(top_results)]

MaxResults == {0, 1, 2}

\* ------------------------------------------------------------------ state
\* ret is the last call and what it returned; the caller takes it (ret back
\* to "idle") before its next call.
Init ==
  /\ chunks = <<>>
  /\ embeddings = <<>>
  /\ chunk_to_embedding = EmptyMap
  /\ ret = [op |-> "idle"]
  /\ threads = [t \in Threads |-> IdleThread]
  /\ doc = NoDocument
  /\ out = [op |-> "none"]
  /\ loader = NoLoad
  /\ view = NoView
  /\ last = NoCall

AddChunks ==
  \E batch \in Batches, encode_ok \in BOOLEAN :
    /\ ret.op = "idle"
    /\ Len(chunks) + Len(batch) <= MaxChunks
    /\ LET st == AddChunksStore(store, batch, encode_ok) IN
         /\ chunks' = st.chunks
         /\ embeddings' = st.embeddings
         /\ chunk_to_embedding' = st.chunk_to_embedding
    /\ ret' = IF Len(batch) > 0 /\ ~encode_ok
                 THEN [op |-> "add_chunks", batch |-> batch, raised |-> TRUE]
                 ELSE [op |-> "add_chunks", batch |-> batch, raised |-> FALSE,
                       value |-> TRUE]
    /\ UNCHANGED <<threads, doc, out, loader, view, last>>

Clear ==
  /\ ret.op = "idle"
  /\ LET st == ClearStore(store) IN
       /\ chunks' = st.chunks
       /\ embeddings' = st.embeddings
       /\ chunk_to_embedding' = st.chunk_to_embedding
  /\ ret' = [op |-> "clear", value |-> TRUE]
  /\ UNCHANGED <<threads, doc, out, loader, view, last>>

Search ==
  \E query \in Queries, top_k \in TopKs, threshold \in Thresholds,
     language \in Languages, category \in Categories :
    /\ ret.op = "idle"
    /\ LET slots == SearchSlots(store, query, top_k, threshold, language, category)
       IN ret' = [op |-> "search", query |-> query, top_k |-> top_k,
                  threshold |-> threshold, language |-> language,
                  category |-> category, slots |-> slots,
                  value |-> SearchResults(store, query, slots)]
    /\ UNCHANGED <<storeVars, threads, doc, out, loader, view, last>>

MultiRound ==
  \E query \in Queries, broad_top_k \in TopKs, refined_top_k \in TopKs,
     broad_threshold \in Thresholds, refined_threshold \in Thresholds :
    /\ ret.op = "idle"
    /\ LET r == MultiRoundSearch(store, query, broad_top_k, refined_top_k,
                                 broad_threshold, refined_threshold)
       IN ret' = [op |-> "multi_round_search", query |-> query,
                  broad_top_k |-> broad_top_k, refined_top_k |-> refined_top_k,
                  broad_threshold |-> broad_threshold,
                  refined_threshold |-> refined_threshold,
                  calls |-> r.calls, value |-> r.value]
    /\ UNCHANGED <<storeVars, threads, doc, out, loader, view, last>>

GetStatsCall ==
  /\ ret.op = "idle"
  /\ ret' = [op |-> "get_stats", value |-> GetStats(store)]
  /\ UNCHANGED <<storeVars, threads, doc, out, loader, view, last>>

TakeResult ==
  /\ ret.op # "idle"
  /\ ret' = [op |-> "idle"]
  /\ UNCHANGED <<storeVars, threads, doc, out, loader, view, last>>

Next == AddChunks \/ Clear \/ Search \/ MultiRound \/ GetStatsCall \/ TakeResult

Spec == Init /\ [][Next]_vars

\* ------------------------------------------- add_chunks calls that interleave
\* Each statement of add_chunks (lines 45-59) is one step of the calling
\* thread; the store has no lock, so steps of different calls interleave.
Pending(t) ==
  IF threads[t].pc \in {"encode", "start_idx", "extend_chunks"}
    THEN Len(threads[t].batch) ELSE 0

\* line 24: the call, with a non-empty list (an empty one returns at line 27)
T_Call(t) ==
  \E batch \in Batches :
    /\ threads[t].pc = "idle"
    /\ Len(batch) > 0
    /\ Len(chunks) + Len(batch)
         + Pending(CHOOSE u \in Threads : u # t) <= MaxChunks
    /\ threads' = [threads EXCEPT ![t] = [pc |-> "encode", batch |-> batch]]
    /\ UNCHANGED <<storeVars, ret, doc, out, loader, view, last>>

\* lines 45-48
T_Encode(t) ==
  /\ threads[t].pc = "encode"
  /\ threads' = [threads EXCEPT ![t] =
       [pc |-> "start_idx", batch |-> threads[t].batch,
        embeddings |-> EncodeAll(threads[t].batch)]]
  /\ UNCHANGED <<storeVars, ret, doc, out, loader, view, last>>

\* line 51
T_StartIdx(t) ==
  /\ threads[t].pc = "start_idx"
  /\ threads' = [threads EXCEPT ![t] =
       [pc |-> "extend_chunks", batch |-> threads[t].batch,
        embeddings |-> threads[t].embeddings, start_idx |-> Len(chunks)]]
  /\ UNCHANGED <<storeVars, ret, doc, out, loader, view, last>>

\* line 52
T_ExtendChunks(t) ==
  /\ threads[t].pc = "extend_chunks"
  /\ chunks' = chunks \o threads[t].batch
  /\ threads' = [threads EXCEPT ![t].pc = "extend_embeddings"]
  /\ UNCHANGED <<embeddings, chunk_to_embedding, ret, doc, out, loader, view, last>>

\* line 53
T_ExtendEmbeddings(t) ==
  /\ threads[t].pc = "extend_embeddings"
  /\ embeddings' = embeddings \o threads[t].embeddings
  /\ threads' = [threads EXCEPT ![t] =
       [pc |-> "mapping", batch |-> threads[t].batch,
        embeddings |-> threads[t].embeddings,
        start_idx |-> threads[t].start_idx, i |-> 0]]
  /\ UNCHANGED <<chunks, chunk_to_embedding, ret, doc, out, loader, view, last>>

\* lines 56-57, one iteration
T_Mapping(t) ==
  /\ threads[t].pc = "mapping"
  /\ threads[t].i < Len(threads[t].batch)
  /\ chunk_to_embedding' =
       Put(chunk_to_embedding, threads[t].batch[threads[t].i + 1].id,
           threads[t].start_idx + threads[t].i)
  /\ threads' = [threads EXCEPT ![t].i = threads[t].i + 1]
  /\ UNCHANGED <<chunks, embeddings, ret, doc, out, loader, view, last>>

\* line 59
T_Return(t) ==
  /\ threads[t].pc = "mapping"
  /\ threads[t].i = Len(threads[t].batch)
  /\ threads' = [threads EXCEPT ![t] = IdleThread]
  /\ UNCHANGED <<storeVars, ret, doc, out, loader, view, last>>

NextInterleaved ==
  \E t \in Threads :
    \/ T_Call(t)
    \/ T_Encode(t)
    \/ T_StartIdx(t)
    \/ T_ExtendChunks(t)
    \/ T_ExtendEmbeddings(t)
    \/ T_Mapping(t)
    \/ T_Return(t)

SpecInterleaved == Init /\ [][NextInterleaved]_vars

\* -------------------------------------------------------- MarkdownProcessor
\* Text is a sequence of characters.
NL == "\n"

IsSpace(c) == c \in {" ", NL}

\* str.split('\n')
RECURSIVE SplitLines(_)
SplitLines(s) ==
  IF \A i \in 1..Len(s) : s[i] # NL THEN <<s>>
  ELSE LET i == CHOOSE i \in 1..Len(s) :
                  s[i] = NL /\ \A j \in 1..(i - 1) : s[j] # NL
       IN <<SubSeq(s, 1, i - 1)>> \o SplitLines(SubSeq(s, i + 1, Len(s)))

\* faulty variant: ' '.join(lines)
RECURSIVE JoinWithSpace(_)
JoinWithSpace(lines) ==
  IF Len(lines) = 0 THEN <<>>
  ELSE IF Len(lines) = 1 THEN lines[1]
  ELSE lines[1] \o <<" ">> \o JoinWithSpace(Tail(lines))

\* '\n'.join(lines)
RECURSIVE Join(_)
Join(lines) ==
  IF Len(lines) = 0 THEN <<>>
  ELSE IF Len(lines) = 1 THEN lines[1]
  ELSE lines[1] \o <<NL>> \o Join(Tail(lines))

\* str.strip()
RECURSIVE LStrip(_)
LStrip(s) == IF Len(s) > 0 /\ IsSpace(s[1]) THEN LStrip(Tail(s)) ELSE s

RECURSIVE RStrip(_)
RStrip(s) ==
  IF Len(s) > 0 /\ IsSpace(s[Len(s)]) THEN RStrip(SubSeq(s, 1, Len(s) - 1)) ELSE s

Strip(s) == RStrip(LStrip(s))

\* str.lstrip('#')
RECURSIVE LStripHash(_)
LStripHash(s) == IF Len(s) > 0 /\ s[1] = "#" THEN LStripHash(Tail(s)) ELSE s

\* s.startswith(prefix)
StartsWith(s, prefix) ==
  Len(s) >= Len(prefix) /\ SubSeq(s, 1, Len(prefix)) = prefix

\* line 121: line.strip().startswith('#')
IsHeaderLine(line) == StartsWith(Strip(line), <<"#">>)

\* line 122: len(line) - len(line.lstrip('#'))
HeaderLevel(line) == Len(line) - Len(LStripHash(line))

\* lines 118-129: header_positions, each with its 0-based line index and
\* level (the text and line fields are not read again)
RECURSIVE HeaderPositionsFrom(_, _)
HeaderPositionsFrom(lines, i) ==
  IF i > Len(lines) THEN <<>>
  ELSE (IF IsHeaderLine(lines[i])
          THEN <<[index |-> i - 1, level |-> HeaderLevel(lines[i])]>>
          ELSE <<>>)
       \o HeaderPositionsFrom(lines, i + 1)

HeaderPositions(lines) == HeaderPositionsFrom(lines, 1)

\* faulty variant: the section stops one line before the next header
SectionEndShort(header_positions, i, n_lines) ==
  LET later == {j \in (i + 1)..Len(header_positions) :
                  header_positions[j].level <= header_positions[i].level}
  IN IF later = {} THEN n_lines
     ELSE header_positions[CHOOSE j \in later : \A k \in later : j <= k].index - 1

\* lines 141-147: end_line, the index of the next header of the same or a
\* higher level, else len(lines)
SectionEnd(header_positions, i, n_lines) ==
  LET later == {j \in (i + 1)..Len(header_positions) :
                  header_positions[j].level <= header_positions[i].level}
  IN IF later = {} THEN n_lines
     ELSE header_positions[CHOOSE j \in later : \A k \in later : j <= k].index

LineSizes(lines) ==
  LET RECURSIVE Sum(_)
      Sum(k) == IF k = 0 THEN 0 ELSE Sum(k - 1) + Len(lines[k]) + 1
  IN Sum(Len(lines))

\* faulty variant: the trailing lines are taken whatever their size
RECURSIVE OverlapFromNoLimit(_, _, _, _, _, _)
OverlapFromNoLimit(current_chunk, i, stop, chunk_overlap, overlap_lines, overlap_size) ==
  IF i <= stop THEN overlap_lines
  ELSE OverlapFromNoLimit(current_chunk, i - 1, stop, chunk_overlap,
                          <<current_chunk[i + 1]>> \o overlap_lines,
                          overlap_size + Len(current_chunk[i + 1]) + 1)

\* lines 177-184 and 219-226: the overlap loop, for i in range(i, stop, -1)
\* (0-based i), taking trailing lines while they fit in chunk_overlap
RECURSIVE OverlapFrom(_, _, _, _, _, _)
OverlapFrom(current_chunk, i, stop, chunk_overlap, overlap_lines, overlap_size) ==
  IF i <= stop THEN overlap_lines
  ELSE IF overlap_size + Len(current_chunk[i + 1]) + 1 <= chunk_overlap
    THEN OverlapFrom(current_chunk, i - 1, stop, chunk_overlap,
                     <<current_chunk[i + 1]>> \o overlap_lines,
                     overlap_size + Len(current_chunk[i + 1]) + 1)
    ELSE overlap_lines

NoChunks == [chunks |-> <<>>, current_chunk |-> <<>>, current_size |-> 0]

\* faulty variant: the cut is made once current_size alone exceeds chunk_size
SimpleStepLateCut(st, line, chunk_size, chunk_overlap) ==
  LET line_size == Len(line) + 1
      overlap_lines == OverlapFrom(st.current_chunk, Len(st.current_chunk) - 1,
                                   0 - 1, chunk_overlap, <<>>, 0)
      s1 == IF st.current_size > chunk_size /\ Len(st.current_chunk) > 0
              THEN [chunks |-> Append(st.chunks, Join(st.current_chunk)),
                    current_chunk |-> overlap_lines,
                    current_size |-> LineSizes(overlap_lines)]
              ELSE st
  IN [chunks |-> s1.chunks,
      current_chunk |-> Append(s1.current_chunk, line),
      current_size |-> s1.current_size + line_size]

\* lines 169-190: one iteration of the loop of _simple_split_chunks
SimpleStep(st, line, chunk_size, chunk_overlap) ==
  LET line_size == Len(line) + 1
      overlap_lines == OverlapFrom(st.current_chunk, Len(st.current_chunk) - 1,
                                   0 - 1, chunk_overlap, <<>>, 0)
      s1 == IF st.current_size + line_size > chunk_size /\ Len(st.current_chunk) > 0
              THEN [chunks |-> Append(st.chunks, Join(st.current_chunk)),
                    current_chunk |-> overlap_lines,
                    current_size |-> LineSizes(overlap_lines)]
              ELSE st
  IN [chunks |-> s1.chunks,
      current_chunk |-> Append(s1.current_chunk, line),
      current_size |-> s1.current_size + line_size]

RECURSIVE SimpleLoop(_, _, _, _, _)
SimpleLoop(lines, k, st, chunk_size, chunk_overlap) ==
  IF k > Len(lines) THEN st
  ELSE SimpleLoop(lines, k + 1, SimpleStep(st, lines[k], chunk_size, chunk_overlap),
                  chunk_size, chunk_overlap)

\* lines 192-196: the last chunk
Flush(st) ==
  IF Len(st.current_chunk) > 0
    THEN Append(st.chunks, Join(st.current_chunk)) ELSE st.chunks

\* _simple_split_chunks
SimpleSplitChunks(content, chunk_size, chunk_overlap) ==
  Flush(SimpleLoop(SplitLines(content), 1, NoChunks, chunk_size, chunk_overlap))

\* lines 204-232: one iteration of the loop of _split_large_section
\* (current_size > chunk_size * 0.7 in tenths)
LargeStep(st, line, chunk_size, chunk_overlap) ==
  LET line_size == Len(line) + 1
      s1 == IF /\ StartsWith(Strip(line), <<"#", "#", "#">>)
               /\ Len(st.current_chunk) > 0
               /\ 10 * st.current_size > 7 * chunk_size
              THEN [chunks |-> Append(st.chunks, Join(st.current_chunk)),
                    current_chunk |-> <<>>, current_size |-> 0]
              ELSE st
      n == Len(s1.current_chunk)
      overlap_lines == OverlapFrom(s1.current_chunk, n - 1,
                                   IF n - 3 > 0 THEN n - 3 ELSE 0,
                                   chunk_overlap, <<>>, 0)
      s2 == IF s1.current_size + line_size > chunk_size /\ n > 0
              THEN [chunks |-> Append(s1.chunks, Join(s1.current_chunk)),
                    current_chunk |-> overlap_lines,
                    current_size |-> LineSizes(overlap_lines)]
              ELSE s1
  IN [chunks |-> s2.chunks,
      current_chunk |-> Append(s2.current_chunk, line),
      current_size |-> s2.current_size + line_size]

RECURSIVE LargeLoop(_, _, _, _, _)
LargeLoop(lines, k, st, chunk_size, chunk_overlap) ==
  IF k > Len(lines) THEN st
  ELSE LargeLoop(lines, k + 1, LargeStep(st, lines[k], chunk_size, chunk_overlap),
                 chunk_size, chunk_overlap)

\* _split_large_section
SplitLargeSection(section_lines, chunk_size, chunk_overlap) ==
  Flush(LargeLoop(section_lines, 1, NoChunks, chunk_size, chunk_overlap))

\* lines 138-158: the chunks of header i and of the headers after it
\* (len(section_content) > chunk_size * 1.5 in halves)
RECURSIVE SectionChunksFrom(_, _, _, _, _)
SectionChunksFrom(lines, header_positions, i, chunk_size, chunk_overlap) ==
  IF i > Len(header_positions) THEN <<>>
  ELSE
    LET start_line == header_positions[i].index
        end_line == SectionEnd(header_positions, i, Len(lines))
        section_lines == SubSeq(lines, start_line + 1, end_line)
        section_content == Join(section_lines)
    IN (IF 2 * Len(section_content) > 3 * chunk_size
          THEN SplitLargeSection(section_lines, chunk_size, chunk_overlap)
          ELSE <<section_content>>)
       \o SectionChunksFrom(lines, header_positions, i + 1, chunk_size, chunk_overlap)

\* faulty variant: the lines before the first header are chunked as well
SplitIntoChunksKeepLeading(content, chunk_size, chunk_overlap) ==
  LET lines == SplitLines(content)
      header_positions == HeaderPositions(lines)
  IN IF Len(header_positions) = 0
       THEN SimpleSplitChunks(content, chunk_size, chunk_overlap)
       ELSE (IF header_positions[1].index > 0
               THEN SimpleSplitChunks(
                      Join(SubSeq(lines, 1, header_positions[1].index)),
                      chunk_size, chunk_overlap)
               ELSE <<>>)
            \o SectionChunksFrom(lines, header_positions, 1, chunk_size, chunk_overlap)

\* split_into_chunks
SplitIntoChunks(content, chunk_size, chunk_overlap) ==
  LET lines == SplitLines(content)
      header_positions == HeaderPositions(lines)
  IN IF Len(header_positions) = 0
       THEN SimpleSplitChunks(content, chunk_size, chunk_overlap)
       ELSE SectionChunksFrom(lines, header_positions, 1, chunk_size, chunk_overlap)

\* str.find: the 0-based position of the first occurrence, else -1
Find(hay, needle) ==
  LET at == {i \in 0..(Len(hay) - Len(needle)) :
               SubSeq(hay, i + 1, i + Len(needle)) = needle}
  IN IF at = {} THEN 0 - 1 ELSE CHOOSE i \in at : \A j \in at : i <= j

\* faulty variant: chunk_index is the position in the split list
RECURSIVE DocumentChunksFromSplitIndex(_, _, _, _)
DocumentChunksFromSplitIndex(document, split, i, document_chunks) ==
  IF i >= Len(split) THEN document_chunks
  ELSE IF Len(Strip(split[i + 1])) = 0
    THEN DocumentChunksFromSplitIndex(document, split, i + 1, document_chunks)
    ELSE DocumentChunksFromSplitIndex(document, split, i + 1,
           Append(document_chunks,
                  [id |-> <<document.id, "_chunk_", i>>,
                   document_id |-> document.id,
                   content |-> split[i + 1],
                   language |-> document.language,
                   category |-> document.category,
                   chunk_index |-> i,
                   start_pos |-> Find(document.content, split[i + 1]),
                   end_pos |-> Find(document.content, split[i + 1]) + Len(split[i + 1]),
                   metadata |-> [title |-> document.title, tags |-> document.tags,
                                 file_path |-> document.file_path]]))

\* faulty variant: without the test of line 282, blank chunks are kept
RECURSIVE DocumentChunksFromKeepBlank(_, _, _, _)
DocumentChunksFromKeepBlank(document, split, i, document_chunks) ==
  IF i >= Len(split) THEN document_chunks
  ELSE DocumentChunksFromKeepBlank(document, split, i + 1,
         Append(document_chunks,
                [id |-> <<document.id, "_chunk_", i>>,
                 document_id |-> document.id,
                 content |-> split[i + 1],
                 language |-> document.language,
                 category |-> document.category,
                 chunk_index |-> Len(document_chunks),
                 start_pos |-> Find(document.content, split[i + 1]),
                 end_pos |-> Find(document.content, split[i + 1]) + Len(split[i + 1]),
                 metadata |-> [title |-> document.title, tags |-> document.tags,
                               file_path |-> document.file_path]]))

\* lines 280-300 of create_chunks: chunk i (0-based) of enumerate(chunks) and
\* the ones after it
RECURSIVE DocumentChunksFrom(_, _, _, _)
DocumentChunksFrom(document, split, i, document_chunks) ==
  IF i >= Len(split) THEN document_chunks
  ELSE IF Len(Strip(split[i + 1])) = 0
    THEN DocumentChunksFrom(document, split, i + 1, document_chunks)
    ELSE DocumentChunksFrom(document, split, i + 1,
           Append(document_chunks,
                  [id |-> <<document.id, "_chunk_", i>>,
                   document_id |-> document.id,
                   content |-> split[i + 1],
                   language |-> document.language,
                   category |-> document.category,
                   chunk_index |-> Len(document_chunks),
                   start_pos |-> Find(document.content, split[i + 1]),
                   end_pos |-> Find(document.content, split[i + 1]) + Len(split[i + 1]),
                   metadata |-> [title |-> document.title, tags |-> document.tags,
                                 file_path |-> document.file_path]]))

\* create_chunks, with settings.chunk_size and settings.chunk_overlap
CreateChunks(document, chunk_size, chunk_overlap) ==
  DocumentChunksFrom(document,
                     SplitIntoChunks(document.content, chunk_size, chunk_overlap),
                     0, <<>>)

\* ----------------------------------------------------------- chunker inputs
MaxLines == 4

\* blank, short and long text lines, headers of level 1, 2 and 4 (the last
\* one longer than 1.5 x the smaller chunk_size) and an indented header
\* (which line 122 gives level 0)
LinePool ==
  { <<>>, <<"a">>, <<"a", "a", "a", "a">>,
    <<"#">>, <<"#", "#">>, <<"#", "#", "#", "#">>, <<" ", "#">> }

ChunkSizes == {2, 4}

ChunkOverlaps == {0, 3}

RECURSIVE TextOf(_)
TextOf(lines) ==
  IF Len(lines) = 1 THEN lines[1] ELSE lines[1] \o <<NL>> \o TextOf(Tail(lines))

Contents == { TextOf(ls) : ls \in UNION { [1..n -> LinePool] : n \in 1..MaxLines } }

DocumentOf(content) ==
  [id |-> "d1", title |-> "T", content |-> content, language |-> "en",
   category |-> "guide", tags |-> <<>>, file_path |-> "guide/d1.md"]

InitChunker ==
  /\ chunks = <<>>
  /\ embeddings = <<>>
  /\ chunk_to_embedding = EmptyMap
  /\ ret = [op |-> "idle"]
  /\ threads = [t \in Threads |-> IdleThread]
  /\ doc \in [content : Contents, chunk_size : ChunkSizes, chunk_overlap : ChunkOverlaps]
  /\ out = [op |-> "none"]
  /\ loader = NoLoad
  /\ view = NoView
  /\ last = NoCall

SplitCall ==
  /\ out' = [op |-> "split_into_chunks",
             value |-> SplitIntoChunks(doc.content, doc.chunk_size, doc.chunk_overlap)]
  /\ UNCHANGED <<storeVars, ret, threads, doc, loader, view, last>>

CreateChunksCall ==
  /\ out' = [op |-> "create_chunks",
             value |-> CreateChunks(DocumentOf(doc.content), doc.chunk_size,
                                    doc.chunk_overlap)]
  /\ UNCHANGED <<storeVars, ret, threads, doc, loader, view, last>>

NextChunker == SplitCall \/ CreateChunksCall

SpecChunker == InitChunker /\ [][NextChunker]_vars

\* ------------------------------------------------- the two size-based splits
\* line 133: _simple_split_chunks is given the text when it has no header
SimpleSplitCall ==
  /\ HeaderPositions(SplitLines(doc.content)) = <<>>
  /\ out' = [op |-> "_simple_split_chunks",
             value |-> SimpleSplitChunks(doc.content, doc.chunk_size,
                                         doc.chunk_overlap)]
  /\ UNCHANGED <<storeVars, ret, threads, doc, loader, view, last>>

\* lines 154-156: _split_large_section is given the lines of a section, a
\* header line and what follows it, longer than 1.5 x chunk_size; here the
\* section is the whole text
SplitLargeSectionCall ==
  LET lines == SplitLines(doc.content)
      header_positions == HeaderPositions(lines)
  IN /\ Len(header_positions) > 0
     /\ header_positions[1].index = 0
     /\ SectionEnd(header_positions, 1, Len(lines)) = Len(lines)
     /\ 2 * Len(doc.content) > 3 * doc.chunk_size
     /\ out' = [op |-> "_split_large_section",
                value |-> SplitLargeSection(lines, doc.chunk_size,
                                            doc.chunk_overlap)]
     /\ UNCHANGED <<storeVars, ret, threads, doc, loader, view, last>>

NextSplitters == SimpleSplitCall \/ SplitLargeSectionCall

SpecSplitters == InitChunker /\ [][NextSplitters]_vars

\* ------------------------------------- multi_round_search called repeatedly
\* the index is filled before the first multi_round_search call and left
\* alone afterwards
AddBeforeSearch == last.op = "none" /\ AddChunks

\* a multi_round_search call; the first one fixes the parameters of the
\* later ones, and last keeps them with the list the first call returned
MultiRoundRepeat ==
  \E query \in Queries, broad_top_k \in TopKs, refined_top_k \in TopKs,
     broad_threshold \in Thresholds, refined_threshold \in Thresholds :
    LET params == <<query, broad_top_k, refined_top_k, broad_threshold,
                    refined_threshold>>
        r == MultiRoundSearch(store, query, broad_top_k, refined_top_k,
                              broad_threshold, refined_threshold)
    IN /\ ret.op = "idle"
       /\ last.op # "none" => (last.params = params /\ ~last.repeated)
       /\ ret' = [op |-> "multi_round_search", query |-> query,
                  broad_top_k |-> broad_top_k, refined_top_k |-> refined_top_k,
                  broad_threshold |-> broad_threshold,
                  refined_threshold |-> refined_threshold,
                  calls |-> r.calls, value |-> r.value]
       /\ last' = IF last.op = "none"
                    THEN [op |-> "multi_round_search", params |-> params,
                          store |-> store, value |-> r.value,
                          repeated |-> FALSE]
                    ELSE [last EXCEPT !.repeated = TRUE]
       /\ UNCHANGED <<storeVars, threads, doc, out, loader, view>>

NextRepeat == AddBeforeSearch \/ MultiRoundRepeat \/ TakeResult

SpecRepeat == Init /\ [][NextRepeat]_vars

\* ------------------------------------------------------ search_with_context
SearchWithContextCall ==
  \E query \in Queries, max_results \in MaxResults :
    /\ ret.op = "idle"
    /\ LET r == SearchWithContext(store, query, max_results)
       IN ret' = [op |-> "search_with_context", query |-> query,
                  max_results |-> max_results,
                  results |-> r.results, context |-> r.context]
    /\ UNCHANGED <<storeVars, threads, doc, out, loader, view, last>>

NextContext == AddChunks \/ SearchWithContextCall \/ TakeResult

SpecContext == Init /\ [][NextContext]_vars

\* ------------------------------------------------------- the chunks accessor
\* lines 137-140: the property returns self._chunks, the list object the
\* store itself extends and clears.  view.at_call is what the list held when
\* it was returned; what it holds now is the store's list.
MaxEdits == 2

ViewContents == chunks

ChunksProperty ==
  /\ ret.op = "idle"
  /\ view' = [held |-> TRUE, at_call |-> chunks, edits |-> 0]
  /\ UNCHANGED <<storeVars, ret, threads, doc, out, loader, last>>

\* the caller appends to the list it was given: list.append on self._chunks
ViewAppend ==
  \E c \in ChunkPool :
    /\ ret.op = "idle"
    /\ view.held
    /\ view.edits < MaxEdits
    /\ Len(chunks) < MaxChunks
    /\ chunks' = Append(chunks, c)
    /\ view' = [view EXCEPT !.edits = view.edits + 1]
    /\ UNCHANGED <<embeddings, chunk_to_embedding, ret, threads, doc, out,
                   loader, last>>

NextView == AddChunks \/ Clear \/ TakeResult \/ ChunksProperty \/ ViewAppend

SpecView == Init /\ [][NextView]_vars

\* ----------------------------------------------------------- DocumentLoader
MaxFiles == 3

MaxWorkers == 2

\* the markdown files find_markdown_files can return
Files == 1..MaxFiles

InitLoader ==
  /\ chunks = <<>>
  /\ embeddings = <<>>
  /\ chunk_to_embedding = EmptyMap
  /\ ret = [op |-> "idle"]
  /\ threads = [t \in Threads |-> IdleThread]
  /\ doc = NoDocument
  /\ out = [op |-> "none"]
  /\ loader \in {[pc |-> "start", markdown_files |-> fs, max_workers |-> w]
                   : fs \in SUBSET Files, w \in 1..MaxWorkers}
  /\ view = NoView
  /\ last = NoCall

\* lines 70-86: no file, return [] at line 74; else one future per file
LoadDocuments ==
  /\ loader.pc = "start"
  /\ loader' =
       [pc |-> IF loader.markdown_files = {} THEN "done" ELSE "collect",
        markdown_files |-> loader.markdown_files,
        max_workers |-> loader.max_workers,
        future |-> [f \in loader.markdown_files |-> "pending"],
        yielded |-> {},
        documents |-> <<>>, processed_count |-> 0, error_count |-> 0,
        value |-> <<>>]
  /\ UNCHANGED <<storeVars, ret, threads, doc, out, view, last>>

\* a pool thread takes a submitted call, at most max_workers at a time
WorkerStart(f) ==
  /\ loader.pc = "collect"
  /\ loader.future[f] = "pending"
  /\ Cardinality({g \in loader.markdown_files : loader.future[g] = "running"})
       < loader.max_workers
  /\ loader' = [loader EXCEPT !.future[f] = "running"]
  /\ UNCHANGED <<storeVars, ret, threads, doc, out, view, last>>

\* process_single_file: the document (line 54); None when process_file or
\* create_chunks raises (lines 55-59); the exception itself when the handler
\* raises in turn
ProcessSingleFile(outcome) ==
  CASE outcome = "ok" -> "document"
    [] outcome = "raises" -> "none"
    [] OTHER -> "exception"

WorkerFinish(f) ==
  \E outcome \in {"ok", "raises", "handler_raises"} :
    /\ loader.pc = "collect"
    /\ loader.future[f] = "running"
    /\ loader' = [loader EXCEPT !.future[f] = ProcessSingleFile(outcome)]
    /\ UNCHANGED <<storeVars, ret, threads, doc, out, view, last>>

\* faulty variant: a future that returned None is not counted
CollectSkipNone(l, f) ==
  IF l.future[f] = "document"
    THEN [l EXCEPT !.yielded = l.yielded \cup {f},
                   !.documents = Append(l.documents, f),
                   !.processed_count = l.processed_count + 1]
    ELSE IF l.future[f] = "none"
      THEN [l EXCEPT !.yielded = l.yielded \cup {f}]
      ELSE [l EXCEPT !.yielded = l.yielded \cup {f},
                     !.error_count = l.error_count + 1]

\* lines 88-100: the body of the as_completed loop for one finished future
Collect(l, f) ==
  IF l.future[f] = "document"
    THEN [l EXCEPT !.yielded = l.yielded \cup {f},
                   !.documents = Append(l.documents, f),
                   !.processed_count = l.processed_count + 1]
    ELSE [l EXCEPT !.yielded = l.yielded \cup {f},
                   !.error_count = l.error_count + 1]

\* as_completed yields every future once, after it has finished
CollectFuture(f) ==
  /\ loader.pc = "collect"
  /\ f \notin loader.yielded
  /\ loader.future[f] \in {"document", "none", "exception"}
  /\ loader' = Collect(loader, f)
  /\ UNCHANGED <<storeVars, ret, threads, doc, out, view, last>>

\* lines 102-110: every future was yielded; return documents
ReturnDocuments ==
  /\ loader.pc = "collect"
  /\ loader.yielded = loader.markdown_files
  /\ loader' = [loader EXCEPT !.pc = "done", !.value = loader.documents]
  /\ UNCHANGED <<storeVars, ret, threads, doc, out, view, last>>

NextLoader ==
  \/ LoadDocuments
  \/ \E f \in Files :
       \/ (f \in loader.markdown_files /\ WorkerStart(f))
       \/ (f \in loader.markdown_files /\ WorkerFinish(f))
       \/ (f \in loader.markdown_files /\ CollectFuture(f))
  \/ ReturnDocuments

\* pool threads run and finish their call, and the loop is resumed when a
\* future has finished
SpecLoader == InitLoader /\ [][NextLoader]_vars /\ WF_vars(NextLoader)

\* ------------------------------------------------------------------ claims
Sim(i) == CosineSimilarity(Encode(ret.query), embeddings[i])

\* C1: after every sequence of add_chunks and clear calls, failed add_chunks
\* calls included, there are as many stored chunks as stored vectors.
C1_LengthParity == Len(chunks) = Len(embeddings)

C1_Witness ==
  /\ ret.op = "add_chunks"
  /\ ret.raised
  /\ Len(chunks) > 0

\* C2: an unfiltered search returns exactly the candidates that are among the
\* top_k highest by similarity and reach the threshold, in descending order:
\* at most top_k results, none below the threshold, and a candidate that
\* reaches the threshold is left out only when top_k others at least as
\* similar are returned.
C2_SearchTopK ==
  (ret.op = "search" /\ ret.language = "" /\ ret.category = "") =>
    LET R == ret.slots IN
      /\ Len(R) <= ret.top_k
      /\ Len(ret.value) = Len(R)
      /\ \A k \in 1..Len(R) :
           /\ R[k] \in 1..Len(chunks)
           /\ SimGe(Sim(R[k]), ret.threshold)
           /\ ret.value[k] = [chunk |-> chunks[R[k]], similarity |-> Sim(R[k])]
      /\ \A j, k \in 1..Len(R) :
           j < k => (R[j] # R[k] /\ Sim(R[j]).v >= Sim(R[k]).v)
      /\ \A i \in 1..Len(chunks) :
           (i \notin Range(R) /\ SimGe(Sim(i), ret.threshold)) =>
             /\ Len(R) = ret.top_k
             /\ \A k \in 1..Len(R) : Sim(R[k]).v >= Sim(i).v

\* C3: multi_round_search returns the refined-pass results tagged 2, followed
\* by the broad-pass results whose id is not among them tagged 1, stably
\* sorted by similarity descending (the refined pass runs, and has results,
\* only when the broad pass returned something): entry k of that merged list
\* stands after every entry of higher similarity and after the earlier
\* entries of equal similarity; so the list is descending and, on equal
\* similarity, refined entries stand before broad ones.
C3_MergedSorted ==
  ret.op = "multi_round_search" =>
    LET broad == StoreSearch(store, ret.query, ret.broad_top_k, ret.broad_threshold, "", "")
        refined == IF broad = <<>> THEN <<>>
                   ELSE StoreSearch(store, ret.query, ret.refined_top_k,
                                    ret.refined_threshold, "", "")
        ids == {refined[k].chunk.id : k \in 1..Len(refined)}
        merged == Tagged(refined, 2)
                    \o Tagged(SelectSeq(broad, LAMBDA r : r.chunk.id \notin ids), 1)
        pos(k) == 1 + Cardinality({j \in 1..Len(merged) :
                                     merged[j].similarity.v > merged[k].similarity.v})
                    + Cardinality({j \in 1..(k - 1) :
                                     merged[j].similarity.v = merged[k].similarity.v})
        got == ret.value
    IN /\ Len(got) = Len(merged)
       /\ \A k \in 1..Len(merged) : got[pos(k)] = merged[k]
       /\ \A j, k \in 1..Len(got) :
            j < k =>
              /\ got[j].similarity.v >= got[k].similarity.v
              /\ (got[j].similarity.v = got[k].similarity.v /\ got[k].round = 2)
                   => got[j].round = 2

C3_Witness ==
  /\ ret.op = "multi_round_search"
  /\ \E j, k \in 1..Len(ret.value) :
       /\ j < k
       /\ ret.value[j].similarity = ret.value[k].similarity
       /\ ret.value[j].round = 2
       /\ ret.value[k].round = 1

\* C4: the list multi_round_search returns holds no two entries with the same
\* chunk id, also when an id was added to the index more than once.
C4_NoDuplicateIds ==
  ret.op = "multi_round_search" =>
    \A j, k \in 1..Len(ret.value) :
      j # k => ret.value[j].chunk.id # ret.value[k].chunk.id

\* C5: for a text with at least one header, every line from the first header
\* line to the last line is in some chunk split_into_chunks returns: some
\* chunk is a run of consecutive lines of the text that includes it.
DocLines == SplitLines(doc.content)

HeaderLines == {i \in 1..Len(DocLines) : IsHeaderLine(DocLines[i])}

LineCovered(i, chunk) ==
  LET cl == SplitLines(chunk)
  IN \E k \in 1..i :
       /\ k + Len(cl) - 1 >= i
       /\ k + Len(cl) - 1 <= Len(DocLines)
       /\ SubSeq(DocLines, k, k + Len(cl) - 1) = cl

C5_LinesCovered ==
  (out.op = "split_into_chunks" /\ HeaderLines # {}) =>
    \A i \in 1..Len(DocLines) :
      (\E h \in HeaderLines : h <= i) =>
        \E c \in 1..Len(out.value) : LineCovered(i, out.value[c])

\* a single section, split with overlap: its chunks hold more lines than it has
C5_Witness ==
  /\ out.op = "split_into_chunks"
  /\ HeaderLines = {1}
  /\ doc.chunk_overlap > 0
  /\ 2 * Len(doc.content) > 3 * doc.chunk_size
  /\ \E c \in 1..(Len(out.value) - 1) :
       LET a == SplitLines(out.value[c])
           b == SplitLines(out.value[c + 1])
       IN Len(b) >= 2 /\ b[1] = a[Len(a)] /\ ~IsHeaderLine(b[1])

\* C6: every chunk split_into_chunks returns is at most 1.5 x chunk_size
\* characters long.
C6_ChunkSizeBound ==
  out.op = "split_into_chunks" =>
    \A c \in 1..Len(out.value) : 2 * Len(out.value[c]) <= 3 * doc.chunk_size

\* C7: every chunk of create_chunks has non-empty content, offsets with
\* 0 <= start_pos < end_pos <= len(content), and content[start_pos:end_pos]
\* equal to the chunk's content.
C7_ChunkOffsets ==
  out.op = "create_chunks" =>
    \A c \in 1..Len(out.value) :
      LET ch == out.value[c] IN
        /\ Len(ch.content) > 0
        /\ 0 <= ch.start_pos
        /\ ch.start_pos < ch.end_pos
        /\ ch.end_pos <= Len(doc.content)
        /\ SubSeq(doc.content, ch.start_pos + 1, ch.end_pos) = ch.content

\* a chunk made by the large-section split with overlap whose text also
\* occurs earlier in the document
C7_Witness ==
  /\ out.op = "create_chunks"
  /\ doc.chunk_overlap > 0
  /\ 2 * Len(doc.content) > 3 * doc.chunk_size
  /\ HeaderLines = {1}
  /\ \E j, k \in 1..Len(out.value) :
       /\ j < k
       /\ out.value[j].start_pos = out.value[k].start_pos
       /\ Len(SplitLines(out.value[k].content)) >= 2

\* C8: when add_chunks calls interleave, the final state (every call has
\* returned) holds every chunk at the slot of its own vector and maps every
\* id to a slot that holds a chunk of that id.
C8_InterleavedConsistent ==
  (\A t \in Threads : threads[t].pc = "idle") =>
    /\ Len(embeddings) = Len(chunks)
    /\ \A i \in 1..Len(chunks) : embeddings[i] = Encode(chunks[i].content)
    /\ \A id \in DOMAIN chunk_to_embedding :
         /\ chunk_to_embedding[id] < Len(chunks)
         /\ chunks[chunk_to_embedding[id] + 1].id = id

\* C9: a call of add_chunks in which the embedding model raises leaves the
\* chunks, the vectors and the id map as they were before the call.
C9_FailedAddNoMutation ==
  [][(ret'.op = "add_chunks" /\ ret'.raised)
       => (chunks' = chunks /\ embeddings' = embeddings
           /\ chunk_to_embedding' = chunk_to_embedding)]_vars

C9_Witness ==
  /\ ret.op = "add_chunks"
  /\ ret.raised
  /\ Len(ret.batch) = 2
  /\ Len(chunks) >= 1
  /\ DOMAIN chunk_to_embedding # {}

\* C10: between calls, every id of the map has a slot inside the chunk list
\* that holds a chunk of that id, every stored chunk's id is in the map, and
\* the slot is that of the id's most recent addition (its last slot).
C10_MapConsistent ==
  /\ \A id \in DOMAIN chunk_to_embedding :
       /\ chunk_to_embedding[id] >= 0
       /\ chunk_to_embedding[id] < Len(chunks)
       /\ chunks[chunk_to_embedding[id] + 1].id = id
  /\ \A i \in 1..Len(chunks) :
       /\ chunks[i].id \in DOMAIN chunk_to_embedding
       /\ chunk_to_embedding[chunks[i].id] + 1 >= i

C10_Witness ==
  /\ ret.op = "add_chunks"
  /\ ~ret.raised
  /\ \E i, j \in 1..Len(chunks) : i < j /\ chunks[i].id = chunks[j].id
  /\ \E i \in 1..Len(chunks) : chunk_to_embedding[chunks[i].id] + 1 # i

\* C11: a successful add_chunks with n chunks returns True and appends exactly
\* n slots after the existing ones, slot by slot the chunks of the call and
\* their vectors; every slot that existed keeps its chunk and its vector,
\* also when an added id is already stored; with n = 0 chunks, vectors and id
\* map are unchanged.
C11_AppendOnly ==
  [][(ret.op = "idle" /\ ret'.op = "add_chunks" /\ ~ret'.raised) =>
       LET n == Len(ret'.batch) IN
         /\ ret'.value = TRUE
         /\ Len(chunks') = Len(chunks) + n
         /\ Len(embeddings') = Len(embeddings) + n
         /\ \A i \in 1..Len(chunks) :
              chunks'[i] = chunks[i] /\ embeddings'[i] = embeddings[i]
         /\ \A k \in 1..n :
              /\ chunks'[Len(chunks) + k] = ret'.batch[k]
              /\ embeddings'[Len(embeddings) + k] = Encode(ret'.batch[k].content)
         /\ (n = 0 => (chunks' = chunks /\ embeddings' = embeddings
                       /\ chunk_to_embedding' = chunk_to_embedding))]_vars

\* two chunks were added to a store that already held a different chunk with
\* the id of one of them
C11_Witness ==
  /\ ret.op = "add_chunks"
  /\ ~ret.raised
  /\ Len(ret.batch) = 2
  /\ Len(chunks) > 2
  /\ \E i \in 1..(Len(chunks) - 2) :
       chunks[i].id = ret.batch[1].id /\ chunks[i] # ret.batch[1]

\* C12: a search with a language and/or a category returns only chunks that
\* have that language and that category, and top_k counts matching chunks
\* only: a matching chunk that reaches the threshold is left out only when
\* top_k other matching chunks are ranked at or above it (nan ranks highest),
\* and the result is that of the same search, unfiltered, on an index that
\* holds the matching chunks alone.
C12_FilterBeforeTopK ==
  (ret.op = "search" /\ (ret.language # "" \/ ret.category # "")) =>
    LET Matches(c) ==
          /\ (ret.language # "" => c.language = ret.language)
          /\ (ret.category # "" => c.category = ret.category)
        matching == {i \in 1..Len(chunks) : Matches(chunks[i])}
        Keep(seq) ==
          LET RECURSIVE From(_)
              From(i) == IF i > Len(chunks) THEN <<>>
                         ELSE (IF i \in matching THEN <<seq[i]>> ELSE <<>>)
                              \o From(i + 1)
          IN From(1)
        restricted == [chunks |-> Keep(chunks), embeddings |-> Keep(embeddings),
                       chunk_to_embedding |-> chunk_to_embedding]
    IN /\ \A k \in 1..Len(ret.value) : Matches(ret.value[k].chunk)
       /\ \A i \in matching :
            (i \notin Range(ret.slots) /\ SimGe(Sim(i), ret.threshold)) =>
              Cardinality({j \in matching \ {i} :
                             Sim(j).nan \/ Sim(j).v >= Sim(i).v}) >= ret.top_k
       /\ ret.value = StoreSearch(restricted, ret.query, ret.top_k,
                                  ret.threshold, "", "")

\* a filtered search returned its one place to a matching chunk although a
\* chunk outside the filter is more similar
C12_Witness ==
  /\ ret.op = "search"
  /\ ret.language # ""
  /\ ret.top_k = 1
  /\ Len(ret.value) = 1
  /\ \E i \in 1..Len(chunks) :
       /\ chunks[i].language # ret.language
       /\ ~Sim(i).nan
       /\ Sim(i).v > ret.value[1].similarity.v

\* C13: among the results of one search that have equal similarity the chunk
\* inserted earlier (the lower slot) is listed first, and of two candidates
\* of equal similarity of which only one is returned, the returned one is
\* the earlier-inserted.
C13_TiesInsertionOrder ==
  ret.op = "search" =>
    LET R == ret.slots
        candidates == {i \in 1..Len(chunks) :
                         MatchesFilter(chunks[i], ret.language, ret.category)}
    IN /\ \A j, k \in 1..Len(R) :
            (j < k /\ Sim(R[j]) = Sim(R[k])) => R[j] < R[k]
       /\ \A r \in Range(R) : \A i \in candidates \ Range(R) :
            Sim(i) = Sim(r) => r < i

\* C14: with the index, the query, the filters and top_k of a search fixed,
\* a search with a lower or equal threshold returns every slot, and so every
\* chunk id, that the search with the higher threshold returned.
C14_ThresholdMonotone ==
  ret.op = "search" =>
    \A t1 \in Thresholds :
      t1 <= ret.threshold =>
        LET lower == SearchSlots(store, ret.query, ret.top_k, t1,
                                 ret.language, ret.category)
            Ids(slots) == {chunks[slots[k]].id : k \in 1..Len(slots)}
        IN /\ Range(ret.slots) \subseteq Range(lower)
           /\ Ids(ret.slots) \subseteq Ids(lower)
           /\ {ret.value[k].chunk.id : k \in 1..Len(ret.value)} = Ids(ret.slots)

\* the lower threshold lets in an id the higher one kept out
C14_Witness ==
  /\ ret.op = "search"
  /\ Len(ret.value) > 0
  /\ \E t1 \in Thresholds :
       /\ t1 < ret.threshold
       /\ \E r \in Range(StoreSearch(store, ret.query, ret.top_k, t1,
                                      ret.language, ret.category)) :
            \A k \in 1..Len(ret.value) : ret.value[k].chunk.id # r.chunk.id

\* C15: multi_round_search makes its second (refined) search call only when
\* the broad search returned at least one result; when the broad search
\* returns nothing it has made exactly one search call and returns the empty
\* list, whatever the refined parameters would find.
C15_ShortCircuit ==
  ret.op = "multi_round_search" =>
    LET broad == StoreSearch(store, ret.query, ret.broad_top_k,
                             ret.broad_threshold, "", "")
    IN /\ ret.calls \in {1, 2}
       /\ (ret.calls = 2 => Len(broad) > 0)
       /\ (Len(broad) = 0 => (ret.calls = 1 /\ ret.value = <<>>))

\* the broad pass found nothing where the refined pass would have found a chunk
C15_Witness ==
  /\ ret.op = "multi_round_search"
  /\ ret.calls = 1
  /\ ret.value = <<>>
  /\ StoreSearch(store, ret.query, ret.refined_top_k, ret.refined_threshold,
                 "", "") # <<>>

\* C16: for a text with at least one header, the sections of two different
\* headers (from the header's line up to its end_line) have no line in
\* common, and when no section is large enough to be split further the
\* chunks together hold no more lines than the text has.
C16_SectionsDisjoint ==
  (out.op = "split_into_chunks" /\ HeaderLines # {}) =>
    LET header_positions == HeaderPositions(DocLines)
        Section(i) == (header_positions[i].index + 1)
                        ..SectionEnd(header_positions, i, Len(DocLines))
        Large(i) ==
          2 * Len(Join([k \in 1..Cardinality(Section(i)) |->
                          DocLines[header_positions[i].index + k]]))
            > 3 * doc.chunk_size
        RECURSIVE ChunkLines(_)
        ChunkLines(c) == IF c = 0 THEN 0
                         ELSE ChunkLines(c - 1) + Len(SplitLines(out.value[c]))
    IN /\ \A i, j \in 1..Len(header_positions) :
            i # j => Section(i) \cap Section(j) = {}
       /\ (\A i \in 1..Len(header_positions) : ~Large(i))
            => ChunkLines(Len(out.value)) <= Len(DocLines)

\* C17: clear returns True and leaves chunks, vectors and id map empty; on an
\* index with zero chunks get_stats reports total_chunks 0 (and no vectors),
\* and search and multi_round_search return the empty list.
C17_EmptyIndex ==
  /\ ret.op = "clear" =>
       /\ ret.value = TRUE
       /\ chunks = <<>>
       /\ embeddings = <<>>
       /\ DOMAIN chunk_to_embedding = {}
  /\ Len(chunks) = 0 =>
       /\ ret.op = "get_stats" =>
            /\ ret.value.total_chunks = 0
            /\ ret.value.total_embeddings = 0
            /\ ret.value.embedding_dimension = 0
       /\ ret.op \in {"search", "multi_round_search"} => ret.value = <<>>

\* a two-pass search on the empty index that asked for two results, with the
\* empty list returned after one call
C17_Witness ==
  /\ Len(chunks) = 0
  /\ ret.op = "multi_round_search"
  /\ ret.broad_top_k = 2
  /\ ret.refined_top_k = 2
  /\ ret.value = <<>>
  /\ ret.calls = 1

\* C18: search and multi_round_search called with the empty query string
\* return the empty list, whatever the index holds.
C18_EmptyQueryEmptyResult ==
  (ret.op \in {"search", "multi_round_search"} /\ ret.query = "") =>
    ret.value = <<>>

\* C19 (as stated): split_into_chunks returns the empty list for the empty
\* text, and no chunk it returns is empty or whitespace-only.
C19_SplitNoBlankChunks ==
  out.op = "split_into_chunks" =>
    /\ (doc.content = <<>> => out.value = <<>>)
    /\ \A c \in 1..Len(out.value) : Len(Strip(out.value[c])) > 0

\* C19 (amended): split_into_chunks returns a list holding one empty chunk
\* for the empty text; the empty and whitespace-only chunks are discarded by
\* create_chunks, which returns the empty list for the empty text and no
\* chunk that is empty or whitespace-only for any text.
C19_CreateNoBlankChunks ==
  /\ (out.op = "split_into_chunks" /\ doc.content = <<>>) => out.value = << <<>> >>
  /\ out.op = "create_chunks" =>
       /\ (doc.content = <<>> => out.value = <<>>)
       /\ \A c \in 1..Len(out.value) : Len(Strip(out.value[c].content)) > 0

\* create_chunks dropped a whitespace-only chunk and kept another
C19_Witness ==
  /\ out.op = "create_chunks"
  /\ Len(out.value) > 0
  /\ LET split == SplitIntoChunks(doc.content, doc.chunk_size, doc.chunk_overlap)
     IN /\ Len(out.value) < Len(split)
        /\ \E c \in 1..Len(split) : Len(split[c]) > 0 /\ Len(Strip(split[c])) = 0

\* C20: a text that is a single header line longer than 1.5 x chunk_size
\* (one section, no sub-header, no other content) is returned by
\* split_into_chunks as more than one chunk.
C20_LongHeaderSplit ==
  (/\ out.op = "split_into_chunks"
   /\ Len(DocLines) = 1
   /\ IsHeaderLine(DocLines[1])
   /\ 2 * Len(DocLines[1]) > 3 * doc.chunk_size) =>
    Len(out.value) > 1

\* C21: a candidate whose similarity is undefined (its vector or the query
\* vector has zero norm) is never returned and never takes one of the top_k
\* places: a candidate with a defined similarity that reaches the threshold
\* is left out only when top_k other candidates with a defined similarity at
\* least as high exist.
C21_ZeroNormSkipped ==
  ret.op = "search" =>
    LET defined == {i \in 1..Len(chunks) :
                      /\ MatchesFilter(chunks[i], ret.language, ret.category)
                      /\ ~Sim(i).nan}
    IN /\ Range(ret.slots) \subseteq defined
       /\ \A i \in defined :
            (i \notin Range(ret.slots) /\ SimGe(Sim(i), ret.threshold)) =>
              Cardinality({j \in defined \ {i} : Sim(j).v >= Sim(i).v})
                >= ret.top_k

\* C22: load_documents, for every max_workers >= 1 and every interleaving of
\* the pool threads, ends, and when it has ended every file found was
\* accounted for exactly once: the returned list holds each file whose
\* processing succeeded once and no other, every other file was counted as
\* an error, and returned documents + errors = files found.
C22_AllFilesAccounted ==
  <>[](/\ loader.pc = "done"
       /\ loader.value = loader.documents
       /\ Len(loader.value) + loader.error_count
            = Cardinality(loader.markdown_files)
       /\ loader.processed_count = Len(loader.value)
       /\ \A j, k \in 1..Len(loader.value) :
            j # k => loader.value[j] # loader.value[k]
       /\ Range(loader.value)
            = {f \in loader.markdown_files : loader.future[f] = "document"})

\* two workers, one file failed, and the two documents came back in the
\* order the workers finished, not the order of the files
C22_Witness ==
  /\ loader.pc = "done"
  /\ loader.max_workers = 2
  /\ loader.error_count = 1
  /\ Len(loader.value) = 2
  /\ loader.value[1] > loader.value[2]
  /\ \E f \in loader.markdown_files : loader.future[f] = "none"

\* C23: the list the chunks accessor returns holds the stored chunks in
\* insertion order as of the call; an add_chunks or clear after the call
\* leaves the returned list as it was, and a change the caller makes to the
\* returned list leaves the store's chunks as they were.
C23_ChunksSnapshot ==
  [][/\ (view' # view /\ view'.edits = 0) => ViewContents' = chunks
     /\ (view.held /\ ret.op = "idle" /\ ret'.op \in {"add_chunks", "clear"})
          => ViewContents' = ViewContents
     /\ (view.held /\ view'.held /\ view'.edits > view.edits)
          => chunks' = chunks]_vars

\* C24: search_with_context(query, max_results) returns the first max_results
\* entries of multi_round_search(query) in their order, and a context whose
\* section headers are numbered 1..n in order, one per returned entry and
\* each followed by that entry's chunk content; when multi_round_search
\* returns nothing, the results and the context are empty.
C24_ContextMatchesResults ==
  ret.op = "search_with_context" =>
    LET all == MultiRoundSearch(store, ret.query, DefaultBroadTopK,
                                DefaultRefinedTopK, DefaultBroadThreshold,
                                DefaultRefinedThreshold).value
        n == IF ret.max_results < Len(all) THEN ret.max_results ELSE Len(all)
        headers == SelectSeq(ret.context, LAMBDA l : l.line = "header")
        contents == SelectSeq(ret.context, LAMBDA l : l.line = "content")
    IN /\ Len(ret.results) = n
       /\ \A k \in 1..n : ret.results[k] = all[k]
       /\ Len(headers) = n
       /\ Len(contents) = n
       /\ \A k \in 1..n :
            /\ headers[k].i = k
            /\ headers[k].similarity = ret.results[k].similarity.v
            /\ headers[k].round_info =
                 (IF ret.results[k].round = 2 THEN "refined" ELSE "broad")
            /\ contents[k].text = ret.results[k].chunk.content
       /\ (Len(all) = 0 => (ret.results = <<>> /\ ret.context = <<>>))

\* the slice is shorter than the merged list
C24_Witness ==
  /\ ret.op = "search_with_context"
  /\ ret.max_results = 2
  /\ Len(ret.results) = 2
  /\ Len(SelectSeq(ret.context, LAMBDA l : l.line = "header")) = 2
  /\ Len(MultiRoundSearch(store, ret.query, DefaultBroadTopK, DefaultRefinedTopK,
                          DefaultBroadThreshold, DefaultRefinedThreshold).value) = 3

\* C25 (as stated): the chunks of create_chunks have chunk_index 0,1,...,n-1
\* in list order, the ordinal in each id equals the chunk_index, and the ids
\* are distinct.
C25_IdOrdinalIsIndex ==
  out.op = "create_chunks" =>
    /\ \A c \in 1..Len(out.value) :
         /\ out.value[c].chunk_index = c - 1
         /\ out.value[c].id = <<"d1", "_chunk_", out.value[c].chunk_index>>
    /\ \A c, d \in 1..Len(out.value) : c # d => out.value[c].id # out.value[d].id

\* C25 (amended): the chunks of create_chunks have chunk_index 0,1,...,n-1
\* in list order; the ordinal in each id is the chunk's 0-based position in
\* the list split_into_chunks returned, which is the chunk_index plus the
\* number of blank chunks skipped before it, so it increases along the list
\* and the ids are distinct.
C25_IdOrdinalIsSplitPosition ==
  out.op = "create_chunks" =>
    LET split == SplitIntoChunks(doc.content, doc.chunk_size, doc.chunk_overlap)
        BlankBefore(k) == Cardinality({j \in 1..k : Len(Strip(split[j])) = 0})
    IN /\ \A c \in 1..Len(out.value) :
            LET k == out.value[c].id[3] IN
              /\ out.value[c].chunk_index = c - 1
              /\ out.value[c].id = <<"d1", "_chunk_", k>>
              /\ k \in 0..(Len(split) - 1)
              /\ split[k + 1] = out.value[c].content
              /\ k = out.value[c].chunk_index + BlankBefore(k)
       /\ \A c, d \in 1..Len(out.value) :
            c < d => out.value[c].id[3] < out.value[d].id[3]
       /\ \A c, d \in 1..Len(out.value) : c # d => out.value[c].id # out.value[d].id

\* a chunk that follows a skipped blank chunk
C25_Witness ==
  /\ out.op = "create_chunks"
  /\ \E c \in 1..Len(out.value) : out.value[c].id[3] > out.value[c].chunk_index

C28_LeadingLinesDropped ==
  (out.op = "split_into_chunks" /\ HeaderLines # {}) =>
    LET first == CHOOSE h \in HeaderLines : \A g \in HeaderLines : h <= g
        leading == SubSeq(DocLines, 1, first - 1)
        rest == SubSeq(DocLines, first, Len(DocLines))
        fallback == SimpleSplitChunks(Join(leading), doc.chunk_size,
                                      doc.chunk_overlap)
    IN /\ out.value = SplitIntoChunks(Join(rest), doc.chunk_size,
                                      doc.chunk_overlap)
       /\ \A c \in 1..Len(out.value) :
            LET cl == SplitLines(out.value[c])
            IN \E k \in first..Len(DocLines) :
                 /\ k + Len(cl) - 1 <= Len(DocLines)
                 /\ SubSeq(DocLines, k, k + Len(cl) - 1) = cl
       /\ first > 1 =>
            \A i \in 1..(first - 1) :
              \E c \in 1..Len(fallback) :
                LET cl == SplitLines(fallback[c])
                IN \E k \in 1..i :
                     /\ k + Len(cl) - 1 >= i
                     /\ k + Len(cl) - 1 <= first - 1
                     /\ SubSeq(leading, k, k + Len(cl) - 1) = cl

\* a line of text before the first header that occurs in no chunk
C28_Witness ==
  /\ out.op = "split_into_chunks"
  /\ HeaderLines # {}
  /\ \E i \in 1..Len(DocLines) :
       /\ \A h \in HeaderLines : i < h
       /\ Len(Strip(DocLines[i])) > 0
       /\ \A c \in 1..Len(out.value) :
            \A j \in 1..Len(SplitLines(out.value[c])) :
              SplitLines(out.value[c])[j] # DocLines[i]

\* C29: when broad_top_k >= refined_top_k, broad_threshold <=
\* refined_threshold and the stored chunk ids are distinct, multi_round_search
\* returns the chunk ids the broad search alone returns, each once: at most
\* broad_top_k entries, those of the refined search tagged 2 and the others
\* tagged 1.
C29_BroadCoversRefined ==
  (/\ ret.op = "multi_round_search"
   /\ ret.broad_top_k >= ret.refined_top_k
   /\ ret.broad_threshold <= ret.refined_threshold
   /\ \A i, j \in 1..Len(chunks) : i # j => chunks[i].id # chunks[j].id) =>
    LET broad == StoreSearch(store, ret.query, ret.broad_top_k,
                             ret.broad_threshold, "", "")
        refined == StoreSearch(store, ret.query, ret.refined_top_k,
                               ret.refined_threshold, "", "")
        Ids(results) == {results[k].chunk.id : k \in 1..Len(results)}
    IN /\ Ids(ret.value) = Ids(broad)
       /\ Len(ret.value) = Len(broad)
       /\ Len(ret.value) <= ret.broad_top_k
       /\ Ids(refined) \subseteq Ids(broad)
       /\ \A k \in 1..Len(ret.value) :
            /\ \E b \in 1..Len(broad) :
                 /\ broad[b].chunk = ret.value[k].chunk
                 /\ broad[b].similarity = ret.value[k].similarity
            /\ ret.value[k].round =
                 (IF ret.value[k].chunk.id \in Ids(refined) THEN 2 ELSE 1)

\* both tags occur in the result
C29_Witness ==
  /\ ret.op = "multi_round_search"
  /\ ret.broad_top_k > ret.refined_top_k
  /\ ret.broad_threshold < ret.refined_threshold
  /\ \A i, j \in 1..Len(chunks) : i # j => chunks[i].id # chunks[j].id
  /\ \E j, k \in 1..Len(ret.value) :
       ret.value[j].round = 2 /\ ret.value[k].round = 1

\* the loop state of the split in out after the first k lines, the lines at
\* which a chunk was emitted, and for such a line the lines of the emitted
\* chunk and the lines the next chunk was seeded with
LoopStateAfter(k) ==
  IF out.op = "_simple_split_chunks"
    THEN SimpleLoop(SubSeq(DocLines, 1, k), 1, NoChunks, doc.chunk_size,
                    doc.chunk_overlap)
    ELSE LargeLoop(SubSeq(DocLines, 1, k), 1, NoChunks, doc.chunk_size,
                   doc.chunk_overlap)

CutLines ==
  {k \in 1..Len(DocLines) :
     Len(LoopStateAfter(k).chunks) > Len(LoopStateAfter(k - 1).chunks)}

EmittedAt(k) == LoopStateAfter(k - 1).current_chunk

SeedAt(k) ==
  SubSeq(LoopStateAfter(k).current_chunk, 1,
         Len(LoopStateAfter(k).current_chunk) - 1)

MaxLineSize ==
  CHOOSE m \in {Len(DocLines[i]) + 1 : i \in 1..Len(DocLines)} :
    \A i \in 1..Len(DocLines) : Len(DocLines[i]) + 1 <= m

\* C30: in both size-based splits every emitted chunk has a total line size
\* (length + 1 per line) of at most max(chunk_size, chunk_overlap + the size
\* of the largest line), and a chunk larger than chunk_size is the lines it
\* was seeded with (none for a chunk that starts afresh) and one line more.
C30_SplitSizeBound ==
  out.op \in {"_simple_split_chunks", "_split_large_section"} =>
    \A c \in 1..Len(out.value) :
      LET size == LineSizes(SplitLines(out.value[c]))
          cut == {k \in CutLines : Len(LoopStateAfter(k).chunks) = c - 1}
          seed == IF cut = {} THEN <<>> ELSE SeedAt(CHOOSE k \in cut : TRUE)
      IN /\ size = Len(out.value[c]) + 1
         /\ (size <= doc.chunk_size
              \/ size <= doc.chunk_overlap + MaxLineSize)
         /\ size > doc.chunk_size =>
              /\ Len(SplitLines(out.value[c])) = Len(seed) + 1
              /\ LineSizes(seed) <= doc.chunk_overlap

\* a chunk larger than chunk_size that starts with seeded lines
C30_Witness ==
  /\ out.op \in {"_simple_split_chunks", "_split_large_section"}
  /\ \E c \in 2..Len(out.value) :
       /\ Len(out.value[c]) + 1 > doc.chunk_size
       /\ Len(SplitLines(out.value[c])) >= 2
       /\ Len(out.value[c]) + 1 > MaxLineSize

====
